---- MODULE Spec2Model ----
(***************************************************************************)
(* A model of the wheelbuf crate (src/src/lib.rs): WheelBuf, a ring buffer *)
(* without a read pointer over caller-supplied storage, its iterator       *)
(* WheelBufIter, and the fmt::Write adapter for char buffers.              *)
(*                                                                         *)
(* pos, total and the iterator's cur are Rust usize values.  usize is      *)
(* UsizeBits wide; an overflowing + or - panics when the build has         *)
(* overflow checks (the debug profile) and wraps modulo 2^UsizeBits when   *)
(* it has none (the release profile).  Indexing out of bounds and % by     *)
(* zero panic in every build.  A panic ends the run.                       *)
(*                                                                         *)
(* A usize value v is held as the integer congruent to v modulo            *)
(* 2^UsizeBits that lies in -2^(UsizeBits-1) .. 2^(UsizeBits-1) - 1, what  *)
(* `v as isize` gives: 0, 1, 2, ... are themselves, usize::MAX is -1,      *)
(* usize::MAX - 1 is -2.  add, sub, rem, le, lt and Min below are the      *)
(* unsigned operations on values held this way.                            *)
(***************************************************************************)
EXTENDS Integers, Sequences, FiniteSets

VARIABLES
    buf,              \* the WheelBuf: [data, pos, total]
    iters,            \* the WheelBufIter values borrowed from buf, by name
    ret,              \* the last call: [op, it, arg, val], what it took and returned
    overflow_checks,  \* the build profile: TRUE panics on overflow, FALSE wraps
    pushed,           \* history: the number M of pushes that returned, as
                      \* [hi |-> M div 2^UsizeBits, lo |-> M mod 2^UsizeBits]
    recent            \* history: the last capacity() items those pushes took

vars == <<buf, iters, ret, overflow_checks, pushed, recent>>

----------------------------------------------------------------------------
(* Bounds of the model *)

MaxCap == 3      \* storage lengths 0..MaxCap
MaxPushes == 4   \* pushes explored past 0 and past the wrap of total
MaxN == 2        \* nth(n) is called with n in 0..MaxN and with usize::MAX
MaxStr == 2      \* write_str chunks of 0..MaxStr characters
MaxCur == 2      \* nth is explored while cur < MaxCur
AgedGap == 1     \* long histories start at most AgedGap below 2^UsizeBits

(* The width of usize on the 64-bit target the crate is built for. *)
UsizeBits == 64

\* 2^k mod c, for c > 0
RECURSIVE Pow2Mod(_, _)
Pow2Mod(k, c) == IF k = 0 THEN 1 % c ELSE (2 * Pow2Mod(k - 1, c)) % c

\* 2^UsizeBits mod c, for c > 0
UsizeMod(c) == Pow2Mod(UsizeBits, c)

\* usize::MAX
UsizeMax == -1

Items == {"a", "b"}      \* what callers push
Filler == "x"            \* what the caller's storage holds before any push
IterIds == {1, 2}

None == "None"
Ok == "Ok"
PanicIndex == "panic: index out of bounds"
PanicOverflow == "panic: arithmetic overflow"
PanicRemZero == "panic: remainder with a divisor of zero"
Panics == {PanicIndex, PanicOverflow, PanicRemZero}

\* a <= b and a < b on usize
le(a, b) == IF (a < 0) = (b < 0) THEN a <= b ELSE b < 0

lt(a, b) == a # b /\ le(a, b)

\* cmp::min on usize
Min(a, b) == IF le(a, b) THEN a ELSE b

----------------------------------------------------------------------------
(* usize arithmetic *)

\* a + b on usize: it overflows when the sum of the values reaches
\* 2^UsizeBits, and the wrapped sum is then held as a + b
add(a, b, oc) ==
    IF (a < 0 \/ b < 0) /\ (a + b >= 0 \/ (a < 0 /\ b < 0))
    THEN IF oc THEN [val |-> PanicOverflow, v |-> 0]
               ELSE [val |-> Ok, v |-> a + b]
    ELSE [val |-> Ok, v |-> a + b]

\* a - b on usize: it overflows when a < b, and the wrapped difference is
\* then held as a - b
sub(a, b, oc) ==
    IF lt(a, b)
    THEN IF oc THEN [val |-> PanicOverflow, v |-> 0]
               ELSE [val |-> Ok, v |-> a - b]
    ELSE [val |-> Ok, v |-> a - b]

\* a % b on usize
rem(a, b) ==
    IF b = 0 THEN [val |-> PanicRemZero, v |-> 0]
    ELSE IF b < 0 THEN [val |-> Ok, v |-> IF lt(a, b) THEN a ELSE a - b]
    ELSE IF a < 0 THEN [val |-> Ok, v |-> (UsizeMod(b) + a) % b]
    ELSE [val |-> Ok, v |-> a % b]

----------------------------------------------------------------------------
(* WheelBuf *)

new(storage) == [data |-> storage, pos |-> 0, total |-> 0]

total(b) == b.total

capacity(b) == Len(b.data)

len(b) == Min(b.total, capacity(b))

is_empty(b) == b.total = 0 \/ capacity(b) = 0

\* push with the count taken before the slot write (a mutant of push)
push_counts_first(b, item, oc) ==
    LET t == add(b.total, 1, oc)
        counted == IF t.val = Ok THEN [b EXCEPT !.total = t.v] ELSE b
    IN  IF t.val # Ok THEN [buf |-> b, val |-> t.val]
        ELSE IF le(Len(b.data), b.pos) THEN [buf |-> counted, val |-> PanicIndex]
        ELSE [buf |-> [counted EXCEPT !.data[b.pos + 1] = item,
                                      !.pos = (b.pos + 1) % Len(b.data)],
              val |-> Ok]

\* push with the position advanced without the modulo (a mutant of push)
push_no_wrap(b, item, oc) ==
    IF le(Len(b.data), b.pos)
    THEN [buf |-> b, val |-> PanicIndex]
    ELSE LET written == [b EXCEPT !.data[b.pos + 1] = item]
             t == add(b.total, 1, oc)
             p == add(b.pos, 1, oc)
         IN  IF t.val # Ok THEN [buf |-> written, val |-> t.val]
             ELSE IF p.val # Ok
                  THEN [buf |-> [written EXCEPT !.total = t.v], val |-> p.val]
             ELSE [buf |-> [written EXCEPT !.total = t.v, !.pos = p.v],
                   val |-> Ok]

\* push: the slot write, then total += 1, then the position update
push(b, item, oc) ==
    IF le(Len(b.data), b.pos)
    THEN [buf |-> b, val |-> PanicIndex]
    ELSE LET written == [b EXCEPT !.data[b.pos + 1] = item]
             t == add(b.total, 1, oc)
             p == add(b.pos, 1, oc)
         IN  IF t.val # Ok THEN [buf |-> written, val |-> t.val]
             ELSE IF p.val # Ok
                  THEN [buf |-> [written EXCEPT !.total = t.v], val |-> p.val]
             ELSE [buf |-> [written EXCEPT !.total = t.v,
                                           !.pos = p.v % Len(b.data)],
                   val |-> Ok]

\* read_start: pos - (len % capacity), with no final modulo
read_start(b, oc) ==
    LET m == rem(len(b), capacity(b))
    IN  IF m.val # Ok THEN m ELSE sub(b.pos, m.v, oc)

\* write_str: push every character of s, in order
RECURSIVE write_str(_, _, _)
write_str(b, s, oc) ==
    IF s = <<>> THEN [buf |-> b, val |-> Ok, n |-> 0]
    ELSE LET r == push(b, Head(s), oc)
         IN  IF r.val # Ok THEN [buf |-> r.buf, val |-> r.val, n |-> 0]
             ELSE LET t == write_str(r.buf, Tail(s), oc)
                  IN  [buf |-> t.buf, val |-> t.val, n |-> t.n + 1]

----------------------------------------------------------------------------
(* WheelBufIter *)

iter == [live |-> TRUE, cur |-> 0, done |-> FALSE]

NoIter == [live |-> FALSE, cur |-> 0, done |-> FALSE]

\* next with the slot index computed before the length test (a mutant of next)
next_index_first(b, cur, oc) ==
    LET rs == read_start(b, oc)
        sum == IF rs.val = Ok THEN add(rs.v, cur, oc) ELSE rs
        idx == IF sum.val = Ok THEN rem(sum.v, capacity(b)) ELSE sum
    IN  IF idx.val # Ok THEN [cur |-> cur, val |-> idx.val]
        ELSE IF le(len(b), cur) THEN [cur |-> cur, val |-> None]
        ELSE [cur |-> cur + 1, val |-> b.data[idx.v + 1]]

\* next: the new cursor and the returned Option (None, or the item)
next(b, cur, oc) ==
    IF le(len(b), cur) THEN [cur |-> cur, val |-> None]
    ELSE LET rs == read_start(b, oc)
             sum == IF rs.val = Ok THEN add(rs.v, cur, oc) ELSE rs
             idx == IF sum.val = Ok THEN rem(sum.v, capacity(b)) ELSE sum
         IN  IF idx.val # Ok THEN [cur |-> cur + 1, val |-> idx.val]
             ELSE IF le(Len(b.data), idx.v)
                  THEN [cur |-> cur + 1, val |-> PanicIndex]
             ELSE [cur |-> cur + 1, val |-> b.data[idx.v + 1]]

\* the slot next reads at cursor cur < len: (read_start + cur) % capacity
slot(b, cur, oc) ==
    LET rs == read_start(b, oc)
        sum == IF rs.val = Ok THEN add(rs.v, cur, oc) ELSE rs
    IN  IF sum.val = Ok THEN rem(sum.v, capacity(b)) ELSE sum

\* nth: the skip, then next
nth(b, cur, n, oc) ==
    LET max_idx == Min(b.total, capacity(b))
        c == IF lt(0, n) THEN add(cur, Min(n, max_idx), oc)
                      ELSE [val |-> Ok, v |-> cur]
    IN  IF c.val # Ok THEN [cur |-> cur, val |-> c.val]
        ELSE next(b, c.v, oc)

----------------------------------------------------------------------------
(* The state after a long history, in closed form *)

\* The buffer after m pushes into storage of length c > 0, the last c of
\* which took the items last[1] (oldest) .. last[c] (newest); m is a usize
\* value and c <= m.  Push number m - c + i went to slot (m - c + i - 1) % c.
AfterPushes(c, m, last) ==
    [data  |-> [j \in 1..c |->
                  last[CHOOSE i \in 1..c : rem(m - c + i - 1, c).v = j - 1]],
     pos   |-> rem(m, c).v,
     total |-> m]

\* the usize values usize::MAX - AgedGap + 1 .. usize::MAX
Aged == (-AgedGap)..UsizeMax

----------------------------------------------------------------------------
(* Initial states *)

\* WheelBuf::new over storage of any length 0..MaxCap
InitNew ==
    /\ \E c \in 0..MaxCap : buf = new([j \in 1..c |-> Filler])
    /\ iters = [i \in IterIds |-> NoIter]
    /\ ret = [op |-> "new", it |-> 0, arg |-> <<>>, val |-> Ok]
    /\ overflow_checks \in BOOLEAN
    /\ pushed = [hi |-> 0, lo |-> 0]
    /\ recent = <<>>

\* A buffer that has taken m pushes, m a little below 2^UsizeBits: total has
\* not wrapped yet, and no call has panicked
InitLongPushed ==
    /\ \E c \in 1..MaxCap, m \in Aged : \E last \in [1..c -> Items] :
          /\ buf = AfterPushes(c, m, last)
          /\ pushed = [hi |-> 0, lo |-> m]
          /\ recent = last
          /\ ret = [op |-> "push", it |-> 0, arg |-> <<last[c]>>, val |-> Ok]
    /\ iters = [i \in IterIds |-> NoIter]
    /\ overflow_checks \in BOOLEAN

\* A buffer just filled, and an iterator over it that nth(1) has driven to
\* cur = k, k a little below 2^UsizeBits: on an exhausted iterator every
\* nth(1) returns None and still adds min(1, len) = 1 to cur
InitLongSkipped ==
    /\ \E c \in 1..MaxCap, k \in Aged : \E last \in [1..c -> Items] :
          /\ buf = AfterPushes(c, c, last)
          /\ pushed = [hi |-> 0, lo |-> c]
          /\ recent = last
          /\ iters = [i \in IterIds |->
                        IF i = 1 THEN [live |-> TRUE, cur |-> k, done |-> TRUE]
                                 ELSE NoIter]
    /\ ret = [op |-> "nth", it |-> 1, arg |-> <<1>>, val |-> None]
    /\ overflow_checks \in BOOLEAN

Init == InitNew \/ InitLongPushed \/ InitLongSkipped

----------------------------------------------------------------------------
(* Actions *)

Panicked == ret.val \in Panics

\* no borrow check: push allowed while iterators are alive (a mutant of
\* Unborrowed)
Unborrowed_unchecked == TRUE

\* push takes &mut self: no iterator borrows the buffer
Unborrowed == \A i \in IterIds : ~iters[i].live

\* pushes are explored for MaxPushes calls from 0 and from 2^UsizeBits
PushBudget == pushed.lo < MaxPushes

\* the count after n more pushes
Counted(p, n) ==
    IF p.lo < 0 /\ p.lo + n >= 0 THEN [hi |-> p.hi + 1, lo |-> p.lo + n]
                                 ELSE [p EXCEPT !.lo = @ + n]

\* the count p modulo c, for c > 0
CountMod(p, c) == (p.hi * UsizeMod(c) + rem(p.lo, c).v) % c

\* min(p, c) for a count p and a usize c
CountMin(p, c) == IF p.hi > 0 THEN c ELSE Min(p.lo, c)

LastN(s, k) == IF Len(s) <= k THEN s ELSE SubSeq(s, Len(s) - k + 1, Len(s))

Push(item) ==
    /\ ~Panicked
    /\ Unborrowed
    /\ PushBudget
    /\ LET r == push(buf, item, overflow_checks)
       IN  /\ buf' = r.buf
           /\ ret' = [op |-> "push", it |-> 0, arg |-> <<item>>, val |-> r.val]
           /\ pushed' = IF r.val = Ok THEN Counted(pushed, 1) ELSE pushed
           /\ recent' = IF r.val = Ok
                        THEN LastN(Append(recent, item), capacity(buf))
                        ELSE recent
    /\ UNCHANGED <<iters, overflow_checks>>

Chunks == UNION {[1..k -> Items] : k \in 0..MaxStr}

WriteStr(s) ==
    /\ ~Panicked
    /\ Unborrowed
    /\ PushBudget
    /\ LET r == write_str(buf, s, overflow_checks)
       IN  /\ buf' = r.buf
           /\ ret' = [op |-> "write_str", it |-> 0, arg |-> <<s>>, val |-> r.val]
           /\ pushed' = Counted(pushed, r.n)
           /\ recent' = LastN(recent \o SubSeq(s, 1, r.n), capacity(buf))
    /\ UNCHANGED <<iters, overflow_checks>>

Iter(i) ==
    /\ ~Panicked
    /\ ~iters[i].live
    /\ iters' = [iters EXCEPT ![i] = iter]
    /\ ret' = [op |-> "iter", it |-> i, arg |-> <<>>, val |-> Ok]
    /\ UNCHANGED <<buf, overflow_checks, pushed, recent>>

\* next() with one cursor shared by every iterator of the buffer, as a read
\* pointer kept in the buffer would be (a mutant of NextStep)
NextStep_shared_cursor(i) ==
    /\ ~Panicked
    /\ iters[i].live
    /\ LET r == next(buf, iters[i].cur, overflow_checks)
       IN  /\ iters' = [j \in IterIds |->
                          IF iters[j].live
                          THEN [iters[j] EXCEPT !.cur = r.cur,
                                                !.done = @ \/ r.val = None]
                          ELSE iters[j]]
           /\ ret' = [op |-> "next", it |-> i, arg |-> <<>>, val |-> r.val]
    /\ UNCHANGED <<buf, overflow_checks, pushed, recent>>

NextStep(i) ==
    /\ ~Panicked
    /\ iters[i].live
    /\ LET r == next(buf, iters[i].cur, overflow_checks)
       IN  /\ iters' = [iters EXCEPT ![i].cur = r.cur,
                                     ![i].done = @ \/ r.val = None]
           /\ ret' = [op |-> "next", it |-> i, arg |-> <<>>, val |-> r.val]
    /\ UNCHANGED <<buf, overflow_checks, pushed, recent>>

\* nth is explored at the cursors 0 .. MaxCur - 1 and at the aged ones
NthBudget(i) == iters[i].cur < MaxCur

\* the arguments nth is called with
NthArgs == 0..MaxN \cup {UsizeMax}

NthStep(i, n) ==
    /\ ~Panicked
    /\ iters[i].live
    /\ NthBudget(i)
    /\ LET r == nth(buf, iters[i].cur, n, overflow_checks)
       IN  /\ iters' = [iters EXCEPT ![i].cur = r.cur,
                                     ![i].done = @ \/ r.val = None]
           /\ ret' = [op |-> "nth", it |-> i, arg |-> <<n>>, val |-> r.val]
    /\ UNCHANGED <<buf, overflow_checks, pushed, recent>>

\* the iterator goes out of scope and its borrow ends
Drop(i) ==
    /\ ~Panicked
    /\ iters[i].live
    /\ iters' = [iters EXCEPT ![i] = NoIter]
    /\ ret' = [op |-> "drop", it |-> i, arg |-> <<>>, val |-> Ok]
    /\ UNCHANGED <<buf, overflow_checks, pushed, recent>>

Queries == {"capacity", "total", "len", "is_empty"}

\* what the query returns
QueryOut(q, b) ==
    CASE q = "capacity" -> capacity(b)
      [] q = "total"    -> total(b)
      [] q = "len"      -> len(b)
      [] q = "is_empty" -> is_empty(b)

\* a len() that stores the clamped count back into total (a mutant of Query)
Query_storing_len(q) ==
    /\ ~Panicked
    /\ buf' = IF q = "len" THEN [buf EXCEPT !.total = len(buf)] ELSE buf
    /\ ret' = [op |-> q, it |-> 0, arg |-> <<>>, val |-> Ok,
               out |-> QueryOut(q, buf)]
    /\ UNCHANGED <<iters, overflow_checks, pushed, recent>>

\* capacity(), total(), len() and is_empty() take &self: they may be called
\* while iterators are alive
Query(q) ==
    /\ ~Panicked
    /\ ret' = [op |-> q, it |-> 0, arg |-> <<>>, val |-> Ok,
               out |-> QueryOut(q, buf)]
    /\ UNCHANGED <<buf, iters, overflow_checks, pushed, recent>>

Next ==
    \/ \E item \in Items : Push(item)
    \/ \E s \in Chunks : WriteStr(s)
    \/ \E i \in IterIds : Iter(i)
    \/ \E i \in IterIds : NextStep(i)
    \/ \E i \in IterIds, n \in NthArgs : NthStep(i, n)
    \/ \E i \in IterIds : Drop(i)
    \/ \E q \in Queries : Query(q)

Spec == Init /\ [][Next]_vars

\* the runs that start at WheelBuf::new
SpecNew == InitNew /\ [][Next]_vars

----------------------------------------------------------------------------
(* What a caller observes *)

\* wheel.iter().cloned().collect(): next() until it returns None.  A panic
\* ends the collection with the panic; fuel stops a run that never ends.
RECURSIVE drain(_, _, _, _)
drain(b, cur, oc, fuel) ==
    LET r == next(b, cur, oc)
    IN  IF r.val = None THEN <<>>
        ELSE IF r.val \in Panics \/ fuel = 0 THEN <<r.val>>
        ELSE <<r.val>> \o drain(b, r.cur, oc, fuel - 1)

collect(b, oc) == drain(b, iter.cur, oc, capacity(b))

\* k >= 1 consecutive next() calls from cursor cur: the last one's result
RECURSIVE nexts(_, _, _, _)
nexts(b, cur, k, oc) ==
    LET r == next(b, cur, oc)
    IN  IF k <= 1 \/ r.val \in Panics THEN r ELSE nexts(b, r.cur, k - 1, oc)

\* the characters of s pushed one by one, s[1] first
RECURSIVE push_each(_, _, _, _)
push_each(b, s, k, oc) ==
    IF k > Len(s) THEN [buf |-> b, val |-> Ok]
    ELSE LET r == push(b, s[k], oc)
         IN  IF r.val # Ok THEN r ELSE push_each(r.buf, s, k + 1, oc)

\* the reference: the last min(M, C) entries of the push log
Live == LastN(recent, CountMin(pushed, capacity(buf)))

----------------------------------------------------------------------------
(* Claims *)

\* C1: for C > 0 and any M pushes, a fresh iterator driven by next() yields
\* exactly the last min(M, C) pushed items, oldest first, each once, and
\* then end-of-sequence.
C1_IterationIsLogSuffix ==
    (capacity(buf) > 0 /\ ~Panicked) => collect(buf, overflow_checks) = Live

\* C2: for C > 0, after M pushes on a new buffer len() = min(M, C) and
\* total() = M, and len() never exceeds capacity().
C2_LenAndTotal ==
    (capacity(buf) > 0 /\ ~Panicked) =>
        /\ len(buf) = CountMin(pushed, capacity(buf))
        /\ pushed.hi = 0 /\ total(buf) = pushed.lo
        /\ le(len(buf), capacity(buf))

\* C3: a push(x) that returns, on a buffer with C > 0, appends x to the
\* iteration output when total < C, and drops the oldest item and appends x
\* when total >= C.
C3_PushShiftsOutput ==
    [][(ret'.op = "push" /\ ret'.val = Ok /\ capacity(buf) > 0) =>
          LET x == ret'.arg[1]
              old == collect(buf, overflow_checks)
          IN  collect(buf', overflow_checks) =
                IF lt(total(buf), capacity(buf)) THEN Append(old, x)
                                              ELSE Append(Tail(old), x)]_vars

\* C4: for any live iterator and any n, nth(n) returns what the last of n+1
\* next() calls from the same cursor returns, and every later next() call
\* returns the same in both cases.
C4_NthIsRepeatedNext ==
    [][\A i \in IterIds :
          (ret'.op = "nth" /\ ret'.it = i) =>
              LET n == ret'.arg[1]
                  \* a next() after the first end-of-sequence changes
                  \* nothing: capacity + 1 calls stand for any more
                  calls == IF lt(capacity(buf), n) THEN capacity(buf) + 1
                                                   ELSE n + 1
                  s == nexts(buf, iters[i].cur, calls, overflow_checks)
              IN  /\ ret'.val = s.val
                  /\ \A k \in 1..(capacity(buf) + 1) :
                        nexts(buf, iters'[i].cur, k, overflow_checks).val =
                        nexts(buf, s.cur, k, overflow_checks).val]_vars

\* C5: once next() or nth(n) on an iterator has returned end-of-sequence,
\* every later next() or nth(m) on that iterator returns end-of-sequence.
C5_ExhaustionIsFinal ==
    [][\A i \in IterIds :
          (iters[i].live /\ iters[i].done
             /\ ret'.op \in {"next", "nth"} /\ ret'.it = i)
          => ret'.val = None]_vars

\* C6: over zero-length storage, capacity() = 0, len() = 0 and is_empty()
\* in every reachable state, and next() and nth(n) on any iterator return
\* end-of-sequence without a panic (no modulo or division by zero).
C6_ZeroCapacityReads ==
    Len(buf.data) = 0 =>
        /\ capacity(buf) = 0
        /\ len(buf) = 0
        /\ is_empty(buf)
        /\ total(buf) = 0
        /\ ret.op \in {"next", "nth"} => ret.val = None
        /\ \A i \in IterIds : iters[i].live =>
              /\ next(buf, iters[i].cur, overflow_checks).val = None
              /\ \A n \in NthArgs :
                    nth(buf, iters[i].cur, n, overflow_checks).val = None

C6_Witness ==
    /\ Len(buf.data) = 0
    /\ ret.op = "nth" /\ ret.val = None
    /\ iters[1].live /\ iters[2].live

\* C7: push on a zero-capacity buffer fails instead of completing, fails at
\* the slot write (before the modulo by zero of the position update), and
\* leaves the buffer, total and pos included, as it was.
C7_ZeroCapacityPushFails ==
    [][(Len(buf.data) = 0 /\ ret'.op = "push") =>
          /\ ret'.val = PanicIndex
          /\ buf' = buf
          /\ total(buf') = 0 /\ buf'.pos = 0]_vars

C7_Witness ==
    /\ Len(buf.data) = 0
    /\ ret.op = "push" /\ ret.val = PanicIndex
    /\ total(buf) = 0 /\ buf.pos = 0

\* C8: for C > 0, write_str(s) returns success for every chunk s, leaves the
\* buffer as pushing the characters of s one by one leaves it, composes
\* like the concatenation of chunks, and iteration then yields the last
\* min(total, C) characters written.
C8_WriteStrPushesAll ==
    [][(ret'.op = "write_str" /\ capacity(buf) > 0) =>
          LET s == ret'.arg[1]
          IN  /\ ret'.val = Ok
              /\ buf' = push_each(buf, s, 1, overflow_checks).buf
              /\ \A t \in Chunks :
                    write_str(buf', t, overflow_checks).buf =
                    write_str(buf, s \o t, overflow_checks).buf
              /\ collect(buf', overflow_checks) =
                    LastN(recent \o s, Min(total(buf'), capacity(buf)))]_vars

\* C9: a next() or nth(n) step on one iterator changes that iterator's
\* cursor only: not another iterator, not the buffer; what it returns
\* is decided by the buffer and its own cursor alone.
C9_IteratorsIndependent ==
    [][\A i \in IterIds :
          (ret'.op \in {"next", "nth"} /\ ret'.it = i) =>
              /\ buf' = buf
              /\ \A j \in IterIds \ {i} : iters'[j] = iters[j]
              /\ \E n \in NthArgs :
                    LET r == nth(buf, iters[i].cur, n, overflow_checks)
                    IN  ret'.val = r.val /\ iters'[i].cur = r.cur]_vars

C9_Witness ==
    /\ iters[1].live /\ iters[2].live
    /\ iters[1].cur # iters[2].cur
    /\ ret.op = "next" /\ ret.it = 2 /\ ret.val \in Items

\* C10: total() never decreases and every push that returns raises it by
\* exactly 1, at every value of the usize counter, its maximum included.
C10_TotalNeverDecreases ==
    [][capacity(buf) > 0 =>
          /\ le(total(buf), total(buf'))
          /\ (ret'.op = "push" /\ ret'.val = Ok) =>
                add(total(buf), 1, TRUE) = [val |-> Ok, v |-> total(buf')]]_vars

\* C11: capacity(), total(), len(), is_empty() and iter() are pure queries:
\* each leaves storage, pos and total unchanged; the four getters leave the
\* iterators unchanged too, and iter() only creates one iterator with cursor
\* 0; so every later operation returns what it would have returned without
\* the call.
C11_QueriesArePure ==
    [][/\ ret'.op \in Queries =>
             /\ buf' = buf /\ iters' = iters
             /\ ret'.out = QueryOut(ret'.op, buf')
       /\ ret'.op = "iter" =>
             /\ buf' = buf
             /\ ~iters[ret'.it].live
             /\ iters' = [iters EXCEPT ![ret'.it] =
                            [live |-> TRUE, cur |-> 0, done |-> FALSE]]
       /\ ret'.op \in Queries \cup {"iter"} =>
             /\ collect(buf', overflow_checks') = collect(buf, overflow_checks)
             /\ \A x \in Items :
                   push(buf', x, overflow_checks') = push(buf, x, overflow_checks)
             /\ \A i \in IterIds : iters[i].live =>
                   next(buf', iters'[i].cur, overflow_checks') =
                   next(buf, iters[i].cur, overflow_checks)]_vars

C11_Witness ==
    /\ ret.op = "len" /\ ret.out = capacity(buf)
    /\ capacity(buf) > 0 /\ lt(capacity(buf), total(buf))
    /\ \E i \in IterIds : iters[i].live /\ lt(0, iters[i].cur)

\* C12: on a buffer with C > 0, read_start as the code computes it,
\* pos - (len() % C) with no final modulo, never underflows, lies in
\* [0, C), equals (pos - (len mod C)) mod C, is 0 while total <= C and
\* equals pos once total >= C.
C12_ReadStartInRange ==
    (capacity(buf) > 0 /\ ~Panicked) =>
        LET C == capacity(buf)
            m == len(buf) % C
            rs == read_start(buf, overflow_checks)
        IN  /\ le(m, buf.pos)
            /\ rs.val = Ok
            /\ rs.v \in 0..(C - 1)
            /\ rs.v = (buf.pos - m) % C
            /\ le(total(buf), C) => rs.v = 0
            /\ le(C, total(buf)) => rs.v = buf.pos

\* C13: on a buffer with C > 0, 0 <= pos < C and pos = (number of pushes
\* performed) mod C in every reachable state; pos is 0 after construction
\* and every push that returns advances it by one modulo C.
C13_WritePosition ==
    /\ [](capacity(buf) > 0 =>
             /\ buf.pos \in 0..(capacity(buf) - 1)
             /\ buf.pos = CountMod(pushed, capacity(buf))
             /\ ret.op = "new" => buf.pos = 0)
    /\ [][(capacity(buf) > 0 /\ ret'.op = "push" /\ ret'.val = Ok) =>
             buf'.pos = (buf.pos + 1) % capacity(buf)]_vars

C13_Witness ==
    /\ capacity(buf) = MaxCap /\ pushed = [hi |-> 0, lo |-> MaxCap + 1]
    /\ buf.pos = 1
    /\ ret.op = "push" /\ ret.val = Ok

\* C14: every physical index that next() or nth(n) reads lies in [0, C) and
\* designates a slot some push has written; while total < C the iterator
\* reads indices 0 .. total-1 only and never returns the storage's initial
\* filler.
C14_OnlyWrittenSlotsRead ==
    /\ ~Panicked =>
          \A cur \in 0..(len(buf) - 1) :
             LET idx == slot(buf, cur, overflow_checks)
             IN  /\ idx.val = Ok
                 /\ idx.v \in 0..(capacity(buf) - 1)
                 /\ pushed.hi > 0 \/ lt(idx.v, pushed.lo)
                 /\ buf.data[idx.v + 1] # Filler
                 /\ lt(total(buf), capacity(buf)) => idx.v \in 0..(total(buf) - 1)
    /\ ret.op \in {"next", "nth"} => ret.val # Filler

\* C15: after any sequence of next() and nth(n) calls the cursor of every
\* iterator satisfies 0 <= cur <= len() of its buffer, and an nth(n) with n
\* larger than the remaining length returns end-of-sequence rather than
\* failing.
C15_CursorWithinLen ==
    [][\A i \in IterIds :
          (ret'.op \in {"next", "nth"} /\ ret'.it = i) =>
              /\ iters'[i].cur \in 0..len(buf')
              /\ (ret'.op = "nth"
                    /\ (iters[i].cur < 0 \/ ret'.arg[1] < 0
                        \/ iters[i].cur + ret'.arg[1] >= len(buf))) =>
                    ret'.val = None]_vars

\* C16: on a buffer with C > 0, a push(x) that returns writes x into
\* storage[pos] (pos taken before the call), leaves every other slot and
\* capacity() unchanged, and changes nothing else but total (+1) and pos
\* ((pos + 1) mod C); capacity() is the same in every reachable state.
C16_PushFrame ==
    [][/\ capacity(buf') = capacity(buf)
       /\ (capacity(buf) > 0 /\ ret'.op = "push" /\ ret'.val = Ok) =>
             /\ buf'.data = [buf.data EXCEPT ![buf.pos + 1] = ret'.arg[1]]
             /\ add(total(buf), 1, TRUE) = [val |-> Ok, v |-> total(buf')]
             /\ buf'.pos = (buf.pos + 1) % capacity(buf)
             /\ iters' = iters]_vars

\* C17: the indices an iterator created in buffer state S visits are the ones
\* S determines, read_start(S), read_start(S) + 1, ... mod C for len(S)
\* steps: the iterator borrows the buffer, so while it is alive no push
\* changes the buffer, and its k-th next() reads slot (read_start + k) mod C.
C17_IteratorSeesCreationState ==
    [][\A i \in IterIds :
          (iters[i].live /\ iters'[i].live) =>
              /\ buf' = buf
              /\ (ret'.op = "next" /\ ret'.it = i /\ ret'.val \in Items) =>
                    LET k == iters[i].cur
                        idx == slot(buf, k, overflow_checks)
                    IN  /\ lt(k, len(buf))
                        /\ idx.val = Ok
                        /\ ret'.val = buf.data[idx.v + 1]
                        /\ iters'[i].cur = k + 1]_vars

C17_Witness ==
    /\ capacity(buf) = MaxCap /\ (pushed.hi > 0 \/ lt(MaxCap, pushed.lo))
    /\ \E i \in IterIds :
          /\ iters[i].live /\ iters[i].cur = MaxCap /\ ~iters[i].done
          /\ ret.op = "next" /\ ret.it = i /\ ret.val \in Items

\* C18: in every reachable state and for every capacity, is_empty() is true
\* iff len() = 0 iff the first next() of a fresh iterator returns
\* end-of-sequence; once a push has succeeded, is_empty() is false in every
\* later state.
C18_EmptinessAgrees ==
    /\ is_empty(buf) <=> len(buf) = 0
    /\ ~Panicked =>
          (len(buf) = 0 <=> next(buf, iter.cur, overflow_checks).val = None)
    /\ pushed # [hi |-> 0, lo |-> 0] => ~is_empty(buf)

====
